---- MODULE Spec2Model ----
(***************************************************************************)
(* Model of the streaming speech-to-text pipeline of godot-whisper         *)
(* (speech_to_text.cpp): the producer add_audio_buffer, the control        *)
(* surface start_listen / stop_listen / set_language_model, and the        *)
(* worker loop SpeechToText::run.                                          *)
(*                                                                         *)
(* Audio is a sequence of runs [id, n, amp]: n consecutive samples of      *)
(* chunk number id that all have the amplitude amp.  Amplitudes are        *)
(* integers in units of 0.0000125, so that the floor 0.0001f of vad_simple *)
(* is 8 units.  Sample counts are the program's own (16 kHz samples).      *)
(***************************************************************************)
EXTENDS Integers, Sequences, FiniteSets, TLC

(***************************************************************************)
(* Bounds of the model.                                                    *)
(***************************************************************************)
\* add_audio_buffer calls in one run of Spec
MaxChunks == 2
\* threads of run() that can be alive at once in SpecThreads
MaxWorkers == 2
\* add_audio_buffer calls in one run of SpecThreads and of FairSpec
MaxThreadChunks == 1

\* tokens in one result of whisper_full in SpecSplit
MaxTokens == 3
\* stretches of constant amplitude in one buffer given to vad_simple in SpecVad
MaxRuns == 2

\* the threads of run() the model has room for
Workers == 1..MaxWorkers

(***************************************************************************)
(* Program constants.                                                      *)
(***************************************************************************)
WHISPER_SAMPLE_RATE == 16000
SPEECH_SETTING_SAMPLE_RATE == 16000
trigger_ms == 400
n_samples_trigger == (trigger_ms * WHISPER_SAMPLE_RATE) \div 1000
iter_threshold_ms == trigger_ms * 35
n_samples_iter_threshold == (iter_threshold_ms * WHISPER_SAMPLE_RATE) \div 1000
vad_window_s == 3
n_samples_vad_window == WHISPER_SAMPLE_RATE * vad_window_s
vad_last_ms == 500
\* the idle tolerance written as the literal 20 in the loop
empty_iter_tolerance == 20
\* 0.0001f in amplitude units
EnergyFloor == 8
\* means are kept as fixed-point numbers with this many units per amplitude unit
MeanScale == 100

(***************************************************************************)
(* Audio buffers (std::vector<float>) as sequences of runs.                *)
(***************************************************************************)
AbsVal(x) == IF x < 0 THEN -x ELSE x

RECURSIVE Size(_)
Size(a) == IF a = <<>> THEN 0 ELSE Head(a).n + Size(Tail(a))

RECURSIVE SumAbs(_)
SumAbs(a) == IF a = <<>> THEN 0 ELSE Head(a).n * AbsVal(Head(a).amp) + SumAbs(Tail(a))

\* the samples from index k to the end: vector(begin() + k, end())
RECURSIVE DropSamples(_, _)
DropSamples(a, k) ==
    IF k <= 0 \/ a = <<>> THEN a
    ELSE IF Head(a).n <= k THEN DropSamples(Tail(a), k - Head(a).n)
    ELSE <<[Head(a) EXCEPT !.n = @ - k]>> \o Tail(a)

\* the last k samples: vector(end() - k, end())
LastSamples(a, k) == DropSamples(a, Size(a) - k)

\* mean absolute amplitude, fixed point
MeanAbs(a, n) == (SumAbs(a) * MeanScale) \div n

(***************************************************************************)
(* high_pass_filter.  The loop reads data[i - 1] after it has been         *)
(* overwritten by the previous output y, so y + data[i] - data[i - 1] is   *)
(* data[i] and every sample but the first is scaled by alpha.  The model   *)
(* has one positive cutoff, the one for which alpha is 1/2.                *)
(***************************************************************************)
AlphaNum(cutoff) == IF cutoff > 0 THEN 1 ELSE 0
AlphaDen(cutoff) == IF cutoff > 0 THEN 2 ELSE 1

ScaleRun(r, cutoff) == [r EXCEPT !.amp = (@ * AlphaNum(cutoff)) \div AlphaDen(cutoff)]

ScaleRuns(a, cutoff) == [i \in 1..Len(a) |-> ScaleRun(a[i], cutoff)]

high_pass_filter(data, cutoff) ==
    IF data = <<>> THEN data
    ELSE LET first == [Head(data) EXCEPT !.n = 1]
             rest == DropSamples(data, 1)
         IN <<first>> \o ScaleRuns(rest, cutoff)

(***************************************************************************)
(* vad_simple: the decision and the buffer as the call leaves it (the      *)
(* buffer is passed by reference and filtered in place).  vad_thold is the *)
(* pair <<numerator, denominator>>.                                        *)
(***************************************************************************)
\* vad_simple without the == false after the silence test
vad_simple_NoNegation(pcmf32, sample_rate, last_ms, vad_thold, freq_thold) ==
    LET n_samples == Size(pcmf32)
        n_samples_last == (sample_rate * last_ms) \div 1000
    IN IF n_samples_last >= n_samples
       THEN [result |-> FALSE, data |-> pcmf32]
       ELSE LET data == IF freq_thold > 0 THEN high_pass_filter(pcmf32, freq_thold) ELSE pcmf32
                energy_all == MeanAbs(data, n_samples)
                energy_last == IF n_samples_last # 0
                               THEN MeanAbs(LastSamples(data, n_samples_last), n_samples_last)
                               ELSE 0
                floor == EnergyFloor * MeanScale
                silent == energy_all < floor /\ energy_last < floor
            IN [result |-> ~(silent \/ energy_last * vad_thold[2] > vad_thold[1] * energy_all),
                data |-> data]

\* vad_simple without the comparison of the two energies
vad_simple_NoRatio(pcmf32, sample_rate, last_ms, vad_thold, freq_thold) ==
    LET n_samples == Size(pcmf32)
        n_samples_last == (sample_rate * last_ms) \div 1000
    IN IF n_samples_last >= n_samples
       THEN [result |-> FALSE, data |-> pcmf32]
       ELSE LET data == IF freq_thold > 0 THEN high_pass_filter(pcmf32, freq_thold) ELSE pcmf32
                energy_all == MeanAbs(data, n_samples)
                energy_last == IF n_samples_last # 0
                               THEN MeanAbs(LastSamples(data, n_samples_last), n_samples_last)
                               ELSE 0
                floor == EnergyFloor * MeanScale
                silent == energy_all < floor /\ energy_last < floor
            IN [result |-> ~(~silent),
                data |-> data]

\* vad_simple that takes a recent window as long as a non-empty buffer for
\* enough history
vad_simple_Strict(pcmf32, sample_rate, last_ms, vad_thold, freq_thold) ==
    LET n_samples == Size(pcmf32)
        n_samples_last == (sample_rate * last_ms) \div 1000
    IN IF n_samples_last > n_samples \/ n_samples = 0
       THEN [result |-> FALSE, data |-> pcmf32]
       ELSE LET data == IF freq_thold > 0 THEN high_pass_filter(pcmf32, freq_thold) ELSE pcmf32
                energy_all == MeanAbs(data, n_samples)
                energy_last == IF n_samples_last # 0
                               THEN MeanAbs(LastSamples(data, n_samples_last), n_samples_last)
                               ELSE 0
                floor == EnergyFloor * MeanScale
                silent == energy_all < floor /\ energy_last < floor
            IN [result |-> ~((~silent) \/ energy_last * vad_thold[2] > vad_thold[1] * energy_all),
                data |-> data]

\* bool vad_simple(pcmf32, sample_rate, last_ms, vad_thold, freq_thold, verbose)
vad_simple(pcmf32, sample_rate, last_ms, vad_thold, freq_thold) ==
    LET n_samples == Size(pcmf32)
        n_samples_last == (sample_rate * last_ms) \div 1000
    IN IF n_samples_last >= n_samples
       THEN [result |-> FALSE, data |-> pcmf32]
       ELSE LET data == IF freq_thold > 0 THEN high_pass_filter(pcmf32, freq_thold) ELSE pcmf32
                energy_all == MeanAbs(data, n_samples)
                energy_last == IF n_samples_last # 0
                               THEN MeanAbs(LastSamples(data, n_samples_last), n_samples_last)
                               ELSE 0
                floor == EnergyFloor * MeanScale
                silent == energy_all < floor /\ energy_last < floor
            IN [result |-> ~((~silent) \/ energy_last * vad_thold[2] > vad_thold[1] * energy_all),
                data |-> data]

(***************************************************************************)
(* The producer's conversions.  A block of stereo frames is a sequence of  *)
(* runs [n, x, y]: n frames with the left value x and the right value y.   *)
(***************************************************************************)
_vector2_array_to_float_array(id, frames) ==
    [i \in 1..Len(frames) |->
        [id |-> id, n |-> frames[i].n, amp |-> (frames[i].x + frames[i].y) \div 2]]

\* int(count * target / source) without leaving 32 bits
ScaleCount(count, source, target) ==
    (count \div source) * target + ((count % source) * target) \div source

RECURSIVE DropEmptyRuns(_)
DropEmptyRuns(a) ==
    IF a = <<>> THEN a
    ELSE IF Head(a).n = 0 THEN DropEmptyRuns(Tail(a))
    ELSE <<Head(a)>> \o DropEmptyRuns(Tail(a))

\* _resample_audio_buffer that hands on the converted samples after an error
_resample_audio_buffer_IgnoresError(src, p_src_samplerate, p_target_samplerate, src_error) ==
    IF p_src_samplerate # p_target_samplerate
    THEN DropEmptyRuns([i \in 1..Len(src) |->
             [src[i] EXCEPT !.n = ScaleCount(@, p_src_samplerate, p_target_samplerate)]])
    ELSE src

\* the first result_size samples of the destination buffer; src_error is
\* what src_simple returns
_resample_audio_buffer(src, p_src_samplerate, p_target_samplerate, src_error) ==
    IF p_src_samplerate # p_target_samplerate
    THEN IF src_error # 0
         THEN <<>>
         ELSE DropEmptyRuns([i \in 1..Len(src) |->
                  [src[i] EXCEPT !.n = ScaleCount(@, p_src_samplerate, p_target_samplerate)]])
    ELSE src

(***************************************************************************)
(* The text of a message is a sequence of characters.                      *)
(***************************************************************************)
SplitMarker == <<"{", "S", "P", "L", "I", "T", "}">>

TagPrefix == <<"[", "_", "T", "T", "_">>

\* the ASCII marks and the UTF-8 bytes of the full-width comma, full stop,
\* question mark and exclamation mark
Punctuation == {<<",">>, <<".">>, <<"?">>, <<"!">>,
                <<"xEF", "xBC", "x8C">>, <<"xE3", "x80", "x82">>,
                <<"xEF", "xBC", "x9F">>, <<"xEF", "xBC", "x81">>}

begins_with(text, prefix) ==
    Len(text) >= Len(prefix) /\ SubSeq(text, 1, Len(prefix)) = prefix

IsSplitCandidate(cur_text) ==
    begins_with(cur_text, TagPrefix) \/ cur_text \in Punctuation

\* InsertAt one position early
InsertAt_OneEarly(text, index, marker) ==
    SubSeq(text, 1, index - 1) \o marker \o SubSeq(text, index, Len(text))

\* std::string::insert(index, marker)
InsertAt(text, index, marker) ==
    SubSeq(text, 1, index) \o marker \o SubSeq(text, index + 1, Len(text))

RECURSIVE FlattenSegments(_)
FlattenSegments(segments) ==
    IF segments = <<>> THEN <<>>
    ELSE Head(segments) \o FlattenSegments(Tail(segments))

\* half the end timestamp of the last token of the last segment
HalfT(segments) ==
    IF Len(segments) > 0
    THEN LET last == segments[Len(segments)] IN last[Len(last)].t1 \div 2
    ELSE 0

\* ScanToken that takes the time of the confirmed candidate in every case
ScanToken_ConfirmedTime(st, token, half_t, speech_has_end) ==
    IF st.find_delete_target_t = FALSE
    THEN IF IsSplitCandidate(token.text)
         THEN IF token.t1 < half_t
              THEN [st EXCEPT !.delete_target_t = token.t1,
                              !.target_index = Len(st.text) + Len(token.text),
                              !.text = @ \o token.text]
              ELSE IF st.delete_target_t = 0
                   THEN [st EXCEPT !.delete_target_t = token.t1,
                                   !.text = IF speech_has_end = FALSE
                                            THEN @ \o token.text \o SplitMarker
                                            ELSE @ \o token.text,
                                   !.find_delete_target_t = TRUE]
                   ELSE [st EXCEPT !.delete_target_t = token.t1,
                                   !.text = (IF speech_has_end = FALSE
                                             THEN InsertAt(@, st.target_index, SplitMarker)
                                             ELSE @) \o token.text,
                                   !.find_delete_target_t = TRUE]
         ELSE [st EXCEPT !.text = @ \o token.text]
    ELSE [st EXCEPT !.text = @ \o token.text]

\* one pass of the inner loop body over a token
ScanToken(st, token, half_t, speech_has_end) ==
    IF st.find_delete_target_t = FALSE
    THEN IF IsSplitCandidate(token.text)
         THEN IF token.t1 < half_t
              THEN [st EXCEPT !.delete_target_t = token.t1,
                              !.target_index = Len(st.text) + Len(token.text),
                              !.text = @ \o token.text]
              ELSE IF st.delete_target_t = 0
                   THEN [st EXCEPT !.delete_target_t = token.t1,
                                   !.text = IF speech_has_end = FALSE
                                            THEN @ \o token.text \o SplitMarker
                                            ELSE @ \o token.text,
                                   !.find_delete_target_t = TRUE]
                   ELSE [st EXCEPT !.text = (IF speech_has_end = FALSE
                                             THEN InsertAt(@, st.target_index, SplitMarker)
                                             ELSE @) \o token.text,
                                   !.find_delete_target_t = TRUE]
         ELSE [st EXCEPT !.text = @ \o token.text]
    ELSE [st EXCEPT !.text = @ \o token.text]

RECURSIVE ScanTokens(_, _, _, _)
ScanTokens(st, tokens, half_t, speech_has_end) ==
    IF tokens = <<>> THEN st
    ELSE ScanTokens(ScanToken(st, Head(tokens), half_t, speech_has_end),
                    Tail(tokens), half_t, speech_has_end)

\* the marker put at the provisional offset when the scan confirmed nothing
CloseScan(st) ==
    IF st.delete_target_t # 0 /\ st.find_delete_target_t = FALSE
    THEN [st EXCEPT !.text = InsertAt(@, st.target_index, SplitMarker),
                    !.find_delete_target_t = TRUE]
    ELSE st

\* SplitText that scans as if speech had never ended
SplitText_Open(segments, speech_has_end) ==
    CloseScan(ScanTokens([text |-> <<>>, delete_target_t |-> 0, target_index |-> 0,
                          find_delete_target_t |-> FALSE],
                         FlattenSegments(segments), HalfT(segments), FALSE))

\* the segment-splitting heuristic over the engine's segments
SplitText(segments, speech_has_end) ==
    CloseScan(ScanTokens([text |-> <<>>, delete_target_t |-> 0, target_index |-> 0,
                          find_delete_target_t |-> FALSE],
                         FlattenSegments(segments), HalfT(segments), speech_has_end))

(***************************************************************************)
(* The decisions of one loop iteration.                                    *)
(***************************************************************************)
\* the queue test at the head of an iteration
QueueBelowTrigger(queue) == Size(queue) < WHISPER_SAMPLE_RATE

\* ForcedClose with the comparison off by one
ForcedClose_Late(count, window) == count > empty_iter_tolerance /\ Size(window) > 0

\* ForcedClose that never closes
ForcedClose_Never(count, window) == FALSE

\* the idle counter after the increment reaches the tolerance with a
\* non-empty window
ForcedClose(count, window) == count >= empty_iter_tolerance /\ Size(window) > 0

\* TooMuchAudio that already warns at the limit
TooMuchAudio_AtLimit(queue) == Size(queue) >= 2 * n_samples_iter_threshold

\* the backpressure test
TooMuchAudio(queue) == Size(queue) > 2 * n_samples_iter_threshold

\* IsFinal without the speech-end disjunct
IsFinal_SizeOnly(window, ended) ==
    Size(window) * 100 > n_samples_iter_threshold * 66

\* size > n_samples_iter_threshold * 0.66 || speech_has_end
IsFinal(window, ended) ==
    Size(window) * 100 > n_samples_iter_threshold * 66 \/ ended

\* TruncateWindow that cuts at the split point although speech has ended
TruncateWindow_IgnoresEnd(window, target_t, ended) ==
    IF target_t = 0
    THEN <<>>
    ELSE LET target_index == (target_t * WHISPER_SAMPLE_RATE) \div 100
         IN IF target_index >= Size(window) THEN <<>> ELSE DropSamples(window, target_index)

\* what is left of the window after a finalization
TruncateWindow(window, target_t, ended) ==
    IF target_t = 0 \/ ended
    THEN <<>>
    ELSE LET target_index == (target_t * WHISPER_SAMPLE_RATE) \div 100
         IN IF target_index >= Size(window) THEN <<>> ELSE DropSamples(window, target_index)

\* the VAD check over the trailing n_samples_vad_window samples
TailVad(window, vad_thold, freq_thold) ==
    IF Size(window) >= n_samples_vad_window
    THEN vad_simple(LastSamples(window, n_samples_vad_window), WHISPER_SAMPLE_RATE,
                    vad_last_ms, vad_thold, freq_thold).result
    ELSE FALSE

\* the first k samples of a buffer
RECURSIVE FirstSamples(_, _)
FirstSamples(a, k) ==
    IF k <= 0 \/ a = <<>> THEN <<>>
    ELSE IF Head(a).n <= k THEN <<Head(a)>> \o FirstSamples(Tail(a), k - Head(a).n)
    ELSE <<[Head(a) EXCEPT !.n = k]>>

\* Transcribe with the tail check run on the window itself, not on a copy
Transcribe_TailInPlace(window, need_close, segments, vad_thold, freq_thold) ==
    LET tail == vad_simple(LastSamples(window, n_samples_vad_window), WHISPER_SAMPLE_RATE,
                           vad_last_ms, vad_thold, freq_thold)
        checked == Size(window) >= n_samples_vad_window
        tail_end == checked /\ tail.result
        filtered == IF checked
                    THEN FirstSamples(window, Size(window) - n_samples_vad_window) \o tail.data
                    ELSE window
        whole == vad_simple(filtered, WHISPER_SAMPLE_RATE, 0, vad_thold, freq_thold)
        window2 == IF need_close THEN whole.data ELSE filtered
        ended == IF need_close THEN TRUE ELSE tail_end
        scan == SplitText(segments, ended)
        final == IsFinal(window2, ended)
    IN [pcmf32 |-> IF final THEN TruncateWindow(window2, scan.delete_target_t, ended)
                   ELSE window2,
        msg |-> [text |-> scan.text, is_partial |-> ~final],
        speech_has_end |-> ended,
        silent_close |-> need_close /\ whole.result,
        delete_target_t |-> scan.delete_target_t]

\* everything between the return of whisper_full and the emission: the new
\* window, the message and the locals the message was built from
Transcribe(window, need_close, segments, vad_thold, freq_thold) ==
    LET tail_end == TailVad(window, vad_thold, freq_thold)
        whole == vad_simple(window, WHISPER_SAMPLE_RATE, 0, vad_thold, freq_thold)
        \* the forced close filters the window itself; msg.text = "" comes
        \* before the scan, which starts from the empty text in any case
        window2 == IF need_close THEN whole.data ELSE window
        ended == IF need_close THEN TRUE ELSE tail_end
        scan == SplitText(segments, ended)
        final == IsFinal(window2, ended)
    IN [pcmf32 |-> IF final THEN TruncateWindow(window2, scan.delete_target_t, ended)
                   ELSE window2,
        msg |-> [text |-> scan.text, is_partial |-> ~final],
        speech_has_end |-> ended,
        silent_close |-> need_close /\ whole.result,
        delete_target_t |-> scan.delete_target_t]

(***************************************************************************)
(* Inputs.                                                                 *)
(***************************************************************************)
\* the blocks the host submits: stereo frames, the mix rate of the audio
\* server, and the error code src_simple returns when it is called
Buffers ==
    { [frames |-> <<[n |-> 8000, x |-> 16, y |-> 16]>>, mix_rate |-> 16000, src_error |-> 0],
      [frames |-> <<[n |-> 24000, x |-> 32, y |-> 0]>>, mix_rate |-> 48000, src_error |-> 0],
      [frames |-> <<[n |-> 24000, x |-> 16, y |-> 16]>>, mix_rate |-> 48000, src_error |-> 1],
      [frames |-> <<[n |-> 152000, x |-> 16, y |-> 16]>>, mix_rate |-> 16000, src_error |-> 0],
      [frames |-> <<[n |-> 16000, x |-> 0, y |-> 0]>>, mix_rate |-> 16000, src_error |-> 0],
      [frames |-> <<[n |-> 8000, x |-> 64, y |-> 64], [n |-> 48000, x |-> 0, y |-> 0]>>,
       mix_rate |-> 16000, src_error |-> 0] }

\* what whisper_full leaves in the context: segments of tokens
EngineOutputs ==
    { <<>>,
      << <<[text |-> <<"a">>, t1 |-> 50], [text |-> <<".">>, t1 |-> 100]>> >>,
      << <<[text |-> <<"a">>, t1 |-> 20], [text |-> <<".">>, t1 |-> 40]>>,
         <<[text |-> <<"b">>, t1 |-> 100]>> >> }

\* the return values of whisper_full
EngineReturns == {0, 1}

\* the models set_language_model may be given
Models == {"null", "empty", "good", "bad"}

\* params.vad_thold as <<numerator, denominator>> and params.freq_thold
ParamChoices == { [vad_thold |-> <<3, 5>>, freq_thold |-> f] : f \in {0, 100} }

NoMsg == [text |-> <<>>, is_partial |-> FALSE]

ProducerThread == MaxWorkers + 1

\* no function is under study
NoCall == [fn |-> "none"]

(***************************************************************************)
(* State.                                                                  *)
(***************************************************************************)
VARIABLES
    is_running,          \* the running flag
    worker,              \* the Thread object of the control surface, 0 for nullptr
    context_instance,    \* the engine handle: "null", "valid" or "freed"
    params,              \* vad_thold and freq_thold
    s_mutex,             \* the thread that holds the mutex, 0 when it is free
    s_queued_pcmf32,     \* the ingest queue
    s_transcribed_msgs,  \* the result sink
    n_chunks,            \* how many blocks were submitted
    producer,            \* the block add_audio_buffer is working on, <<>> when none
    accepted_log,        \* history: every sample appended to the queue, in order
    moved_log,           \* history: every sample moved out of the queue, in order
    pc,                  \* where each thread of run() is
    pcmf32,              \* run(): the audio window of each thread
    empty_iter_count,    \* run(): the idle counter
    need_close_segment,  \* run(): the forced-close flag
    warned,              \* run(): this iteration printed the backpressure warning
    engine_in,           \* run(): the window handed to whisper_full
    speech_has_end,      \* run(): the speech-end verdict of the iteration
    silent_close,        \* run(): the forced close found the whole window silent
    msg,                 \* run(): the message of the iteration
    signal,              \* run(): the array handed to emit_signal, <<>> when none
    call,                \* the function call under study and its arguments
    returned             \* what the call returned

shared == <<is_running, worker, context_instance, params, s_mutex,
            s_queued_pcmf32, s_transcribed_msgs, n_chunks, producer,
            accepted_log, moved_log>>
locals == <<pc, pcmf32, empty_iter_count, need_close_segment, warned, engine_in,
            speech_has_end, silent_close, msg, signal>>
vars == <<shared, locals, call, returned>>

\* the program after construction
InitProgram ==
    /\ is_running = FALSE
    /\ worker = 0
    /\ context_instance = "null"
    /\ params \in ParamChoices
    /\ s_mutex = 0
    /\ s_queued_pcmf32 = <<>>
    /\ s_transcribed_msgs = <<>>
    /\ n_chunks = 0
    /\ producer = <<>>
    /\ accepted_log = <<>>
    /\ moved_log = <<>>
    /\ pc = [w \in Workers |-> "unborn"]
    /\ pcmf32 = [w \in Workers |-> <<>>]
    /\ empty_iter_count = [w \in Workers |-> 0]
    /\ need_close_segment = [w \in Workers |-> FALSE]
    /\ warned = [w \in Workers |-> FALSE]
    /\ engine_in = [w \in Workers |-> <<>>]
    /\ speech_has_end = [w \in Workers |-> FALSE]
    /\ silent_close = [w \in Workers |-> FALSE]
    /\ msg = [w \in Workers |-> NoMsg]
    /\ signal = [w \in Workers |-> <<>>]

Init ==
    /\ InitProgram
    /\ call = NoCall
    /\ returned = NoCall

(***************************************************************************)
(* The control surface.                                                    *)
(***************************************************************************)
\* start_listen when the flag is clear: a new Thread runs run() as thread w
start_listen(w) ==
    /\ is_running = FALSE
    /\ is_running' = TRUE
    /\ worker' = w
    /\ pc' = [pc EXCEPT ![w] = "head"]
    /\ pcmf32' = [pcmf32 EXCEPT ![w] = <<>>]
    /\ empty_iter_count' = [empty_iter_count EXCEPT ![w] = 0]
    /\ need_close_segment' = [need_close_segment EXCEPT ![w] = FALSE]
    /\ warned' = [warned EXCEPT ![w] = FALSE]
    /\ engine_in' = [engine_in EXCEPT ![w] = <<>>]
    /\ speech_has_end' = [speech_has_end EXCEPT ![w] = FALSE]
    /\ silent_close' = [silent_close EXCEPT ![w] = FALSE]
    /\ msg' = [msg EXCEPT ![w] = NoMsg]
    /\ signal' = [signal EXCEPT ![w] = <<>>]
    /\ UNCHANGED <<context_instance, params, s_mutex, s_queued_pcmf32, s_transcribed_msgs,
                   n_chunks, producer, accepted_log, moved_log>>
    /\ UNCHANGED <<call, returned>>

\* the host calls start_listen only when every earlier thread has left run()
start_listen_joined ==
    /\ \A v \in Workers : pc[v] \in {"unborn", "exited"}
    /\ start_listen(1)

\* the host calls start_listen at any time; the new thread is the next one
\* the model has room for
start_listen_any ==
    \E w \in Workers :
        /\ pc[w] = "unborn"
        /\ \A v \in Workers : v < w => pc[v] # "unborn"
        /\ start_listen(w)

stop_listen ==
    /\ is_running = TRUE
    /\ is_running' = FALSE
    /\ worker' = 0
    /\ UNCHANGED <<context_instance, params, s_mutex, s_queued_pcmf32,
                   s_transcribed_msgs, n_chunks, producer, accepted_log, moved_log>>
    /\ UNCHANGED locals
    /\ UNCHANGED <<call, returned>>

\* the handle load_model leaves: whisper_free, then a new context unless the
\* model is null or empty
LoadedContext(old, model) ==
    IF model \in {"null", "empty"}
    THEN (IF old = "null" THEN "null" ELSE "freed")
    ELSE (IF model = "good" THEN "valid" ELSE "null")

set_language_model(model) ==
    /\ context_instance' = LoadedContext(context_instance, model)
    /\ context_instance' # context_instance
    /\ UNCHANGED <<is_running, worker, params, s_mutex, s_queued_pcmf32,
                   s_transcribed_msgs, n_chunks, producer, accepted_log, moved_log>>
    /\ UNCHANGED locals
    /\ UNCHANGED <<call, returned>>

(***************************************************************************)
(* add_audio_buffer: the lock, then everything up to the unlock.           *)
(***************************************************************************)
add_audio_buffer_lock(buffer, limit) ==
    /\ n_chunks < limit
    /\ producer = <<>>
    /\ s_mutex = 0
    /\ s_mutex' = ProducerThread
    /\ producer' = <<buffer>>
    /\ n_chunks' = n_chunks + 1
    /\ UNCHANGED <<is_running, worker, context_instance, params,
                   s_queued_pcmf32, s_transcribed_msgs, accepted_log, moved_log>>
    /\ UNCHANGED locals
    /\ UNCHANGED <<call, returned>>

\* the samples add_audio_buffer appends for a block
AcceptedSamples(id, buffer, vad_thold, freq_thold) ==
    LET buffer_float == _vector2_array_to_float_array(id, buffer.frames)
        resampled == _resample_audio_buffer(buffer_float, buffer.mix_rate,
                                            SPEECH_SETTING_SAMPLE_RATE, buffer.src_error)
        vad == vad_simple(resampled, WHISPER_SAMPLE_RATE, 0, vad_thold, freq_thold)
    IN IF vad.result = FALSE THEN vad.data ELSE <<>>

add_audio_buffer_body ==
    /\ producer # <<>>
    /\ s_mutex = ProducerThread
    /\ LET data == AcceptedSamples(n_chunks, producer[1], params.vad_thold, params.freq_thold)
       IN /\ s_queued_pcmf32' = s_queued_pcmf32 \o data
          /\ accepted_log' = accepted_log \o data
    /\ producer' = <<>>
    /\ s_mutex' = 0
    /\ UNCHANGED <<is_running, worker, context_instance, params,
                   s_transcribed_msgs, n_chunks, moved_log>>
    /\ UNCHANGED locals
    /\ UNCHANGED <<call, returned>>

(***************************************************************************)
(* run(): the worker loop, one action per step between two points where    *)
(* another thread can be seen to act.                                      *)
(***************************************************************************)
\* LoopCondition as while (true)
LoopCondition_Forever(running) == TRUE

\* while (is_running)
LoopCondition(running) == running

\* ErrorContinuation as break
ErrorContinuation_Break == "exited"

\* where an abandoned iteration goes on: continue
ErrorContinuation == "head"

\* WindowAfterFailure with the window dropped
WindowAfterFailure_Cleared(window) == <<>>

\* the window an abandoned iteration leaves
WindowAfterFailure(window) == window

\* DrainedQueue without the clear()
DrainedQueue_Kept(queue) == queue

\* the queue after the move into the window: clear()
DrainedQueue(queue) == <<>>

\* the array built from the result sink and the new message
EmitArray(sink, m) == sink \o <<m>>

LoopHead(w) ==
    /\ pc[w] = "head"
    /\ IF LoopCondition(is_running)
       THEN /\ pc' = [pc EXCEPT ![w] = "lock1"]
            /\ warned' = [warned EXCEPT ![w] = FALSE]
            /\ engine_in' = [engine_in EXCEPT ![w] = <<>>]
            /\ speech_has_end' = [speech_has_end EXCEPT ![w] = FALSE]
            /\ silent_close' = [silent_close EXCEPT ![w] = FALSE]
            /\ msg' = [msg EXCEPT ![w] = NoMsg]
            /\ signal' = [signal EXCEPT ![w] = <<>>]
       ELSE /\ pc' = [pc EXCEPT ![w] = "exited"]
            /\ UNCHANGED <<warned, engine_in, speech_has_end, silent_close, msg, signal>>
    /\ UNCHANGED <<pcmf32, empty_iter_count, need_close_segment>>
    /\ UNCHANGED shared
    /\ UNCHANGED <<call, returned>>

\* s_mutex.lock() at the four places of the loop
LockTarget(p) ==
    CASE p = "lock1" -> "check"
      [] p = "lock2" -> "warn"
      [] p = "lock3" -> "drain"
      [] p = "lock4" -> "emit"

Lock(w) ==
    /\ pc[w] \in {"lock1", "lock2", "lock3", "lock4"}
    /\ s_mutex = 0
    /\ s_mutex' = w
    /\ pc' = [pc EXCEPT ![w] = LockTarget(pc[w])]
    /\ UNCHANGED <<is_running, worker, context_instance, params,
                   s_queued_pcmf32, s_transcribed_msgs, n_chunks, producer,
                   accepted_log, moved_log>>
    /\ UNCHANGED <<pcmf32, empty_iter_count, need_close_segment, warned, engine_in,
                   speech_has_end, silent_close, msg, signal>>
    /\ UNCHANGED <<call, returned>>

\* CheckQueue whose idle branch sleeps without the unlock
CheckQueue_IdleKeepsLock(w) ==
    /\ pc[w] = "check"
    /\ s_mutex = w
    /\ IF QueueBelowTrigger(s_queued_pcmf32)
       THEN IF ForcedClose(empty_iter_count[w] + 1, pcmf32[w])
            THEN /\ need_close_segment' = [need_close_segment EXCEPT ![w] = TRUE]
                 /\ empty_iter_count' = [empty_iter_count EXCEPT ![w] = 0]
                 /\ pc' = [pc EXCEPT ![w] = "lock2"]
            ELSE /\ need_close_segment' = [need_close_segment EXCEPT ![w] = FALSE]
                 /\ empty_iter_count' = [empty_iter_count EXCEPT ![w] =
                                            (@ + 1) % empty_iter_tolerance]
                 /\ pc' = [pc EXCEPT ![w] = "sleep"]
       ELSE /\ need_close_segment' = [need_close_segment EXCEPT ![w] = FALSE]
            /\ empty_iter_count' = empty_iter_count
            /\ pc' = [pc EXCEPT ![w] = "lock2"]
    /\ s_mutex' = IF QueueBelowTrigger(s_queued_pcmf32)
                     /\ ~ForcedClose(empty_iter_count[w] + 1, pcmf32[w])
                  THEN w ELSE 0
    /\ UNCHANGED <<is_running, worker, context_instance, params,
                   s_queued_pcmf32, s_transcribed_msgs, n_chunks, producer,
                   accepted_log, moved_log>>
    /\ UNCHANGED <<pcmf32, warned, engine_in, speech_has_end, silent_close, msg, signal>>
    /\ UNCHANGED <<call, returned>>

\* the first block of the loop body, up to its unlock
CheckQueue(w) ==
    /\ pc[w] = "check"
    /\ s_mutex = w
    /\ IF QueueBelowTrigger(s_queued_pcmf32)
       THEN IF ForcedClose(empty_iter_count[w] + 1, pcmf32[w])
            THEN /\ need_close_segment' = [need_close_segment EXCEPT ![w] = TRUE]
                 /\ empty_iter_count' = [empty_iter_count EXCEPT ![w] = 0]
                 /\ pc' = [pc EXCEPT ![w] = "lock2"]
            ELSE /\ need_close_segment' = [need_close_segment EXCEPT ![w] = FALSE]
                 /\ empty_iter_count' = [empty_iter_count EXCEPT ![w] =
                                            (@ + 1) % empty_iter_tolerance]
                 /\ pc' = [pc EXCEPT ![w] = "sleep"]
       ELSE /\ need_close_segment' = [need_close_segment EXCEPT ![w] = FALSE]
            /\ empty_iter_count' = empty_iter_count
            /\ pc' = [pc EXCEPT ![w] = "lock2"]
    /\ s_mutex' = 0
    /\ UNCHANGED <<is_running, worker, context_instance, params,
                   s_queued_pcmf32, s_transcribed_msgs, n_chunks, producer,
                   accepted_log, moved_log>>
    /\ UNCHANGED <<pcmf32, warned, engine_in, speech_has_end, silent_close, msg, signal>>
    /\ UNCHANGED <<call, returned>>

\* delay_msec(50); continue
Sleep(w) ==
    /\ pc[w] = "sleep"
    /\ pc' = [pc EXCEPT ![w] = "head"]
    /\ UNCHANGED shared
    /\ UNCHANGED <<pcmf32, empty_iter_count, need_close_segment, warned, engine_in,
                   speech_has_end, silent_close, msg, signal>>
    /\ UNCHANGED <<call, returned>>

\* the backpressure block
WarnTooMuch(w) ==
    /\ pc[w] = "warn"
    /\ s_mutex = w
    /\ warned' = [warned EXCEPT ![w] = TooMuchAudio(s_queued_pcmf32)]
    /\ s_mutex' = 0
    /\ pc' = [pc EXCEPT ![w] = "lock3"]
    /\ UNCHANGED <<is_running, worker, context_instance, params,
                   s_queued_pcmf32, s_transcribed_msgs, n_chunks, producer,
                   accepted_log, moved_log>>
    /\ UNCHANGED <<pcmf32, empty_iter_count, need_close_segment, engine_in,
                   speech_has_end, silent_close, msg, signal>>
    /\ UNCHANGED <<call, returned>>

\* the move of the queue into the window
Drain(w) ==
    /\ pc[w] = "drain"
    /\ s_mutex = w
    /\ pcmf32' = [pcmf32 EXCEPT ![w] = @ \o s_queued_pcmf32]
    /\ moved_log' = moved_log \o s_queued_pcmf32
    /\ s_queued_pcmf32' = DrainedQueue(s_queued_pcmf32)
    /\ s_mutex' = 0
    /\ pc' = [pc EXCEPT ![w] = "engine"]
    /\ UNCHANGED <<is_running, worker, context_instance, params,
                   s_transcribed_msgs, n_chunks, producer, accepted_log>>
    /\ UNCHANGED <<empty_iter_count, need_close_segment, warned, engine_in,
                   speech_has_end, silent_close, msg, signal>>
    /\ UNCHANGED <<call, returned>>

\* if (!context_instance) continue; else the call of whisper_full
CheckEngine(w) ==
    /\ pc[w] = "engine"
    /\ IF context_instance = "null"
       THEN /\ pc' = [pc EXCEPT ![w] = ErrorContinuation]
            /\ pcmf32' = [pcmf32 EXCEPT ![w] = WindowAfterFailure(@)]
            /\ UNCHANGED engine_in
       ELSE /\ pc' = [pc EXCEPT ![w] = "inflight"]
            /\ engine_in' = [engine_in EXCEPT ![w] = pcmf32[w]]
            /\ UNCHANGED pcmf32
    /\ UNCHANGED shared
    /\ UNCHANGED <<empty_iter_count, need_close_segment, warned,
                   speech_has_end, silent_close, msg, signal>>
    /\ UNCHANGED <<call, returned>>

\* whisper_full returns an error: continue
WhisperFails(w, ret) ==
    /\ pc[w] = "inflight"
    /\ ret # 0
    /\ pc' = [pc EXCEPT ![w] = ErrorContinuation]
    /\ pcmf32' = [pcmf32 EXCEPT ![w] = WindowAfterFailure(@)]
    /\ UNCHANGED shared
    /\ UNCHANGED <<empty_iter_count, need_close_segment, warned, engine_in,
                   speech_has_end, silent_close, msg, signal>>
    /\ UNCHANGED <<call, returned>>

\* whisper_full returns 0 and the iteration builds its message
WhisperDone(w, ret, segments) ==
    /\ pc[w] = "inflight"
    /\ ret = 0
    /\ LET t == Transcribe(pcmf32[w], need_close_segment[w], segments,
                           params.vad_thold, params.freq_thold)
       IN /\ pcmf32' = [pcmf32 EXCEPT ![w] = t.pcmf32]
          /\ msg' = [msg EXCEPT ![w] = t.msg]
          /\ speech_has_end' = [speech_has_end EXCEPT ![w] = t.speech_has_end]
          /\ silent_close' = [silent_close EXCEPT ![w] = t.silent_close]
    /\ pc' = [pc EXCEPT ![w] = "lock4"]
    /\ UNCHANGED shared
    /\ UNCHANGED <<empty_iter_count, need_close_segment, warned, engine_in, signal>>
    /\ UNCHANGED <<call, returned>>

\* Emit that drops the message once the running flag is clear
Emit_IfRunning(w) ==
    /\ pc[w] = "emit"
    /\ s_mutex = w
    /\ signal' = [signal EXCEPT ![w] = IF is_running
                                       THEN EmitArray(s_transcribed_msgs, msg[w])
                                       ELSE <<>>]
    /\ s_transcribed_msgs' = <<>>
    /\ s_mutex' = 0
    /\ pc' = [pc EXCEPT ![w] = "head"]
    /\ UNCHANGED <<is_running, worker, context_instance, params,
                   s_queued_pcmf32, n_chunks, producer, accepted_log, moved_log>>
    /\ UNCHANGED <<pcmf32, empty_iter_count, need_close_segment, warned, engine_in,
                   speech_has_end, silent_close, msg>>
    /\ UNCHANGED <<call, returned>>

\* Emit that leaves the message in the sink
Emit_KeepsSink(w) ==
    /\ pc[w] = "emit"
    /\ s_mutex = w
    /\ signal' = [signal EXCEPT ![w] = EmitArray(s_transcribed_msgs, msg[w])]
    /\ s_transcribed_msgs' = EmitArray(s_transcribed_msgs, msg[w])
    /\ s_mutex' = 0
    /\ pc' = [pc EXCEPT ![w] = "head"]
    /\ UNCHANGED <<is_running, worker, context_instance, params,
                   s_queued_pcmf32, n_chunks, producer, accepted_log, moved_log>>
    /\ UNCHANGED <<pcmf32, empty_iter_count, need_close_segment, warned, engine_in,
                   speech_has_end, silent_close, msg>>
    /\ UNCHANGED <<call, returned>>

\* the last block: the message goes through the sink to emit_signal
Emit(w) ==
    /\ pc[w] = "emit"
    /\ s_mutex = w
    /\ signal' = [signal EXCEPT ![w] = EmitArray(s_transcribed_msgs, msg[w])]
    /\ s_transcribed_msgs' = <<>>
    /\ s_mutex' = 0
    /\ pc' = [pc EXCEPT ![w] = "head"]
    /\ UNCHANGED <<is_running, worker, context_instance, params,
                   s_queued_pcmf32, n_chunks, producer, accepted_log, moved_log>>
    /\ UNCHANGED <<pcmf32, empty_iter_count, need_close_segment, warned, engine_in,
                   speech_has_end, silent_close, msg>>
    /\ UNCHANGED <<call, returned>>

WorkerStep(w) ==
    \/ LoopHead(w)
    \/ Lock(w)
    \/ CheckQueue(w)
    \/ Sleep(w)
    \/ WarnTooMuch(w)
    \/ Drain(w)
    \/ CheckEngine(w)
    \/ \E ret \in EngineReturns : WhisperFails(w, ret)
    \/ \E ret \in EngineReturns, segments \in EngineOutputs : WhisperDone(w, ret, segments)
    \/ Emit(w)

(***************************************************************************)
(* Spec: listening sessions one after the other, with every input.         *)
(***************************************************************************)
Next ==
    \/ start_listen_joined
    \/ stop_listen
    \/ \E model \in Models : set_language_model(model)
    \/ \E buffer \in Buffers : add_audio_buffer_lock(buffer, MaxChunks)
    \/ add_audio_buffer_body
    \/ \E w \in Workers : WorkerStep(w)

Spec == Init /\ [][Next]_vars

(***************************************************************************)
(* SpecThreads: start_listen after stop_listen, with a loaded model and    *)
(* one kind of block.                                                      *)
(***************************************************************************)
ThreadBuffers ==
    { [frames |-> <<[n |-> 16000, x |-> 16, y |-> 16]>>, mix_rate |-> 16000, src_error |-> 0] }

InitThreads ==
    /\ Init
    /\ params.freq_thold = 0

NextThreads ==
    \/ start_listen_any
    \/ stop_listen
    \/ \E model \in {"good", "bad"} : set_language_model(model)
    \/ \E buffer \in ThreadBuffers : add_audio_buffer_lock(buffer, MaxThreadChunks)
    \/ add_audio_buffer_body
    \/ \E w \in Workers : WorkerStep(w)

SpecThreads == InitThreads /\ [][NextThreads]_vars

(***************************************************************************)
(* FairSpec: sessions one after the other with one kind of block, where     *)
(* every thread of run() keeps being scheduled, whisper_full returns, and  *)
(* add_audio_buffer runs to its unlock.                                    *)
(***************************************************************************)
NextSession ==
    \/ start_listen_joined
    \/ stop_listen
    \/ \E model \in {"good", "bad"} : set_language_model(model)
    \/ \E buffer \in ThreadBuffers : add_audio_buffer_lock(buffer, MaxThreadChunks)
    \/ add_audio_buffer_body
    \/ \E w \in Workers : WorkerStep(w)

FairSpec ==
    /\ Init
    /\ [][NextSession]_vars
    /\ \A w \in Workers : WF_vars(WorkerStep(w))
    /\ WF_vars(add_audio_buffer_body)

(***************************************************************************)
(* SpecBackpressure: sessions one after the other where the host submits   *)
(* blocks of twice the iteration threshold, and of one sample more.        *)
(***************************************************************************)
BackpressureBuffers ==
    { [frames |-> <<[n |-> 2 * n_samples_iter_threshold, x |-> 10, y |-> 10]>>,
       mix_rate |-> 16000, src_error |-> 0],
      [frames |-> <<[n |-> 2 * n_samples_iter_threshold + 1, x |-> 10, y |-> 10]>>,
       mix_rate |-> 16000, src_error |-> 0],
      [frames |-> <<[n |-> 16000, x |-> 10, y |-> 10]>>, mix_rate |-> 16000, src_error |-> 0] }

NextBackpressure ==
    \/ start_listen_joined
    \/ stop_listen
    \/ \E model \in {"good", "bad"} : set_language_model(model)
    \/ \E buffer \in BackpressureBuffers : add_audio_buffer_lock(buffer, MaxThreadChunks)
    \/ add_audio_buffer_body
    \/ \E w \in Workers : WorkerStep(w)

SpecBackpressure == InitThreads /\ [][NextBackpressure]_vars

(***************************************************************************)
(* SpecVad: vad_simple applied to buffers of up to MaxRuns stretches of    *)
(* constant amplitude, around the floor of 8 units, with the recent        *)
(* windows and cutoffs of VadLastMs and VadCutoffs.                        *)
(***************************************************************************)
VadRuns == [id : {1}, n : {4000, 8000}, amp : {0, 6, 8, 10, 64, -64}]

\* the buffers of up to max stretches
VadBuffers(max) == UNION {[1..k -> VadRuns] : k \in 0..max}

VadLastMs == {0, 250, 500, 1000}

VadCutoffs == {0, 100}

InitVad ==
    /\ InitProgram
    /\ call \in [fn : {"vad_simple"}, pcmf32 : VadBuffers(MaxRuns), sample_rate : {WHISPER_SAMPLE_RATE},
                 last_ms : VadLastMs, vad_thold : {<<3, 5>>}, freq_thold : VadCutoffs]
    /\ returned = NoCall

CallVadSimple ==
    /\ call.fn = "vad_simple"
    /\ returned = NoCall
    /\ LET v == vad_simple(call.pcmf32, call.sample_rate, call.last_ms,
                           call.vad_thold, call.freq_thold)
       IN returned' = [fn |-> "vad_simple", result |-> v.result, data |-> v.data]
    /\ UNCHANGED <<shared, locals, call>>

NextVad == CallVadSimple

SpecVad == InitVad /\ [][NextVad]_vars

(***************************************************************************)
(* SpecScenario: the host starts listening, loads a good model and submits *)
(* 3 s of loud audio followed by 1 s of zeros at 16 kHz, cut into blocks   *)
(* in one of several ways; whisper_full succeeds.  Every thread keeps      *)
(* being scheduled and the host makes each of its calls; add_audio_buffer  *)
(* gets the mutex, which run() leaves free during each delay_msec(50) and  *)
(* each whisper_full.                                                      *)
(***************************************************************************)
LoudFrames(n) == [n |-> n, x |-> 64, y |-> 64]

ZeroFrames(n) == [n |-> n, x |-> 0, y |-> 0]

Block(frames) == [frames |-> frames, mix_rate |-> 16000, src_error |-> 0]

\* the ways the host cuts the 64000 samples into blocks
FeedScripts ==
    { << Block(<<LoudFrames(48000), ZeroFrames(16000)>>) >>,
      << Block(<<LoudFrames(48000)>>), Block(<<ZeroFrames(16000)>>) >>,
      << Block(<<LoudFrames(16000)>>), Block(<<LoudFrames(16000)>>),
         Block(<<LoudFrames(16000)>>), Block(<<ZeroFrames(16000)>>) >>,
      << Block(<<LoudFrames(8000)>>), Block(<<LoudFrames(40000), ZeroFrames(8000)>>),
         Block(<<ZeroFrames(8000)>>) >> }

InitScenario ==
    /\ InitProgram
    /\ call \in [fn : {"feed"}, blocks : FeedScripts]
    /\ returned = NoCall

\* the host submits the next block of its script
FeedNextBlock ==
    /\ n_chunks < Len(call.blocks)
    /\ add_audio_buffer_lock(call.blocks[n_chunks + 1], Len(call.blocks))

\* the steps of run() when whisper_full succeeds
WorkingEngineStep(w) ==
    \/ LoopHead(w)
    \/ Lock(w)
    \/ CheckQueue(w)
    \/ Sleep(w)
    \/ WarnTooMuch(w)
    \/ Drain(w)
    \/ CheckEngine(w)
    \/ \E segments \in EngineOutputs : WhisperDone(w, 0, segments)
    \/ Emit(w)

NextScenario ==
    \/ start_listen_joined
    \/ set_language_model("good")
    \/ FeedNextBlock
    \/ add_audio_buffer_body
    \/ \E w \in Workers : WorkingEngineStep(w)

SpecScenario ==
    /\ InitScenario
    /\ [][NextScenario]_vars
    /\ WF_vars(start_listen_joined)
    /\ WF_vars(set_language_model("good"))
    /\ SF_vars(FeedNextBlock)
    /\ WF_vars(add_audio_buffer_body)
    /\ \A w \in Workers : WF_vars(WorkingEngineStep(w))

(***************************************************************************)
(* SpecTrailing: the host of SpecScenario with audio that ends in a block  *)
(* of 0.5 s: alone, after 1 s of loud audio, and after an utterance that   *)
(* was closed.                                                             *)
(***************************************************************************)
TrailingScripts ==
    { << Block(<<LoudFrames(8000)>>) >>,
      << Block(<<LoudFrames(16000)>>), Block(<<LoudFrames(8000)>>) >>,
      << Block(<<LoudFrames(48000), ZeroFrames(16000)>>), Block(<<LoudFrames(8000)>>) >> }

InitTrailing ==
    /\ InitProgram
    /\ call \in [fn : {"feed"}, blocks : TrailingScripts]
    /\ returned = NoCall

SpecTrailing ==
    /\ InitTrailing
    /\ [][NextScenario]_vars
    /\ WF_vars(start_listen_joined)
    /\ WF_vars(set_language_model("good"))
    /\ SF_vars(FeedNextBlock)
    /\ WF_vars(add_audio_buffer_body)
    /\ \A w \in Workers : WF_vars(WorkingEngineStep(w))

(***************************************************************************)
(* SpecSplit: the segment-splitting scan of run() applied to the results   *)
(* whisper_full can leave, with either speech-end verdict.                 *)
(***************************************************************************)
\* token texts: a word, an ASCII mark, the full-width comma, a timestamp tag
TokenTexts == {<<"a">>, <<".">>, <<"xEF", "xBC", "x8C">>, TagPrefix \o <<"1", "]">>}

\* token end times in 10 ms units
TokenTimes == {0, 20, 50, 100}

Tokens == [text : TokenTexts, t1 : TokenTimes]

\* the token sequences of up to max tokens
TokenSeqs(max) == UNION {[1..n -> Tokens] : n \in 1..max}

\* the tokens as one segment, or with the first token in a segment of its own
SegmentLists(max) ==
    {<<>>} \cup {<<ts>> : ts \in TokenSeqs(max)}
           \cup {<< <<Head(ts)>>, Tail(ts) >> : ts \in {s \in TokenSeqs(max) : Len(s) >= 2}}

InitSplit ==
    /\ InitProgram
    /\ call \in [fn : {"SplitText"}, segments : SegmentLists(MaxTokens),
                 speech_has_end : BOOLEAN]
    /\ returned = NoCall

CallSplitText ==
    /\ call.fn = "SplitText"
    /\ returned = NoCall
    /\ returned' = [fn |-> "SplitText", st |-> SplitText(call.segments, call.speech_has_end)]
    /\ UNCHANGED <<shared, locals, call>>

NextSplit == CallSplitText

SpecSplit == InitSplit /\ [][NextSplit]_vars

(***************************************************************************)
(* SpecTranscribe: the part of an iteration after whisper_full returned 0, *)
(* applied to the windows of TranscribeWindows, with and without a forced  *)
(* close, and to the results whisper_full can leave.                       *)
(***************************************************************************)
\* windows of 0.5 s to 9.5 s: loud, loud with a silent tail, and quiet
TranscribeWindows ==
    { <<[id |-> 1, n |-> 8000, amp |-> 16]>>,
      <<[id |-> 1, n |-> 16000, amp |-> 16]>>,
      <<[id |-> 1, n |-> 40000, amp |-> 64], [id |-> 1, n |-> 8000, amp |-> 0]>>,
      <<[id |-> 1, n |-> 48000, amp |-> 10]>>,
      <<[id |-> 1, n |-> 48000, amp |-> 6]>>,
      <<[id |-> 1, n |-> 8000, amp |-> 64], [id |-> 1, n |-> 48000, amp |-> 0]>>,
      <<[id |-> 1, n |-> 16000, amp |-> 6], [id |-> 1, n |-> 16000, amp |-> 0]>>,
      <<[id |-> 1, n |-> 152000, amp |-> 16]>> }

InitTranscribe ==
    /\ InitProgram
    /\ call \in [fn : {"Transcribe"}, window : TranscribeWindows, need_close : BOOLEAN,
                 segments : SegmentLists(MaxTokens - 1)]
    /\ returned = NoCall

CallTranscribe ==
    /\ call.fn = "Transcribe"
    /\ returned = NoCall
    /\ LET t == Transcribe(call.window, call.need_close, call.segments,
                           params.vad_thold, params.freq_thold)
       IN returned' = [fn |-> "Transcribe", pcmf32 |-> t.pcmf32, msg |-> t.msg,
                       speech_has_end |-> t.speech_has_end,
                       silent_close |-> t.silent_close,
                       delete_target_t |-> t.delete_target_t]
    /\ UNCHANGED <<shared, locals, call>>

NextTranscribe == CallTranscribe

SpecTranscribe == InitTranscribe /\ [][NextTranscribe]_vars

(***************************************************************************)
(* Properties.                                                             *)
(***************************************************************************)
\* the places of run() after the test of the running flag
LoopBody == {"lock1", "check", "sleep", "lock2", "warn", "lock3", "drain",
             "engine", "inflight", "lock4", "emit"}

RECURSIVE IdsAscend(_)
IdsAscend(a) ==
    \/ Len(a) < 2
    \/ /\ a[1].id <= a[2].id
       /\ IdsAscend(Tail(a))

\* C1: for any sequence of start_listen and stop_listen calls at most one
\* thread is inside the transcription loop, so the queue has one consumer.
C1_SingleConsumer ==
    Cardinality({w \in Workers : pc[w] \in LoopBody}) <= 1

\* C2: the samples moved out of the queue followed by the samples still in
\* it are the accepted samples in submission order, nothing lost, doubled
\* or reordered, and a drain leaves the queue empty.
C2_QueueIsFifo ==
    /\ [](/\ moved_log \o s_queued_pcmf32 = accepted_log
          /\ IdsAscend(moved_log \o s_queued_pcmf32))
    /\ [][\A w \in Workers : pc[w] = "drain" /\ pc'[w] # "drain"
                             => s_queued_pcmf32' = <<>>]_vars

\* C2 witness: a first block was moved into the window and a later block
\* waits in the queue
C2_Witness ==
    /\ moved_log # <<>>
    /\ s_queued_pcmf32 # <<>>
    /\ moved_log[1].id < s_queued_pcmf32[1].id

\* C3: once the running flag is cleared and stays cleared, every thread of
\* run() leaves the loop, given that whisper_full returns; a thread that
\* tests the cleared flag at the head leaves at that test.
C3_StopLeadsToExit ==
    /\ (is_running = FALSE)
          ~> (is_running \/ \A w \in Workers : pc[w] \in {"unborn", "exited"})
    /\ [][\A w \in Workers : pc[w] = "head" /\ pc'[w] # "head" /\ is_running = FALSE
                             => pc'[w] = "exited"]_vars

\* C3 witness: the thread left the loop after stop_listen, and its last
\* iteration had called the engine
C3_Witness ==
    /\ is_running = FALSE
    /\ pc[1] = "exited"
    /\ engine_in[1] # <<>>

\* C4: a thread of run() leaves the loop only when the running flag is
\* clear; no error path and no warning ends the loop.
C4_ExitOnlyWhenStopped ==
    [][\A w \in Workers : pc[w] # "exited" /\ pc'[w] = "exited"
                          => is_running = FALSE]_vars

\* C4 witness: an iteration was abandoned on an engine error and the thread
\* is back at the head of the loop with the flag still set
C4_Witness ==
    /\ is_running
    /\ pc[1] = "head"
    /\ engine_in[1] # <<>>
    /\ signal[1] = <<>>

\* C5: after whisper_full succeeded the thread does nothing but take the
\* mutex and hand its message to emit_signal, whatever the running flag
\* has become; it reaches the head of the loop only after that.
C5_StopKeepsMessage ==
    [][\A w \in Workers :
          pc[w] \in {"lock4", "emit"} /\ pc'[w] # pc[w]
          => \/ pc[w] = "lock4" /\ pc'[w] = "emit" /\ msg'[w] = msg[w]
             \/ pc[w] = "emit" /\ pc'[w] = "head" /\ signal'[w] = <<msg[w]>>]_vars

\* C5 witness: the flag was cleared during the iteration, and the message
\* of the iteration is about to be emitted
C5_Witness ==
    /\ is_running = FALSE
    /\ pc[1] = "emit"
    /\ msg[1].text # <<>>

\* C6: the thread sleeps only when the queue holds less than
\* n_samples_trigger samples (400 ms).
C6_IdleOnlyBelowTrigger ==
    [][\A w \in Workers : pc[w] = "check" /\ pc'[w] = "sleep"
                          => Size(s_queued_pcmf32) < n_samples_trigger]_vars

\* C7: a queue check below the trigger with a non-empty window counts one
\* idle check; the check that makes the count 20 goes on to the engine
\* instead of sleeping, and the message of that iteration is final.
C7_ForcedClose ==
    /\ [](\A w \in Workers :
            /\ empty_iter_count[w] \in 0..(empty_iter_tolerance - 1)
            /\ (need_close_segment[w] /\ pc[w] \in {"lock4", "emit"}
                => msg[w].is_partial = FALSE))
    /\ [][\A w \in Workers :
            pc[w] = "check" /\ pc'[w] # "check"
            /\ Size(s_queued_pcmf32) < WHISPER_SAMPLE_RATE /\ pcmf32[w] # <<>>
            => IF empty_iter_count[w] + 1 = empty_iter_tolerance
               THEN need_close_segment'[w] /\ pc'[w] = "lock2"
                    /\ s_queued_pcmf32' = s_queued_pcmf32
               ELSE empty_iter_count'[w] = empty_iter_count[w] + 1
                    /\ pc'[w] = "sleep"]_vars

\* C7 witness: a forced close emitted a final message
C7_Witness ==
    /\ need_close_segment[1]
    /\ pc[1] = "head"
    /\ Len(signal[1]) = 1
    /\ signal[1][1].is_partial = FALSE
    /\ context_instance = "valid"

\* C8: a forced close over a window that vad_simple finds silent emits an
\* empty text.
C8_SilentCloseEmptyText ==
    \A w \in Workers :
        pc[w] \in {"lock4", "emit"} /\ silent_close[w] => msg[w].text = <<>>

\* C9: an iteration that finds no engine handle, or whose whisper_full
\* returns non-zero, emits nothing, keeps the window it had after the drain
\* and goes back to the head of the loop.
C9_AbandonedIteration ==
    [][\A w \in Workers :
          pc[w] \in {"engine", "inflight"} /\ pc'[w] # "lock4"
          => /\ pcmf32'[w] = pcmf32[w]
             /\ signal'[w] = <<>>
             /\ s_transcribed_msgs' = s_transcribed_msgs
             /\ pc'[w] \in {pc[w], "inflight", "head"}]_vars

\* C9 witness: whisper_full failed, the thread is back at the head with
\* the window it gave to the engine and no message
C9_Witness ==
    /\ pc[1] = "head"
    /\ engine_in[1] # <<>>
    /\ pcmf32[1] = engine_in[1]
    /\ signal[1] = <<>>
    /\ msg[1] = NoMsg

\* C10: the message is final exactly when the window exceeds 66% of
\* n_samples_iter_threshold or speech end was judged (tail VAD or forced
\* close); a partial iteration leaves the window as it was.
C10_FinalExactlyWhen ==
    \A w \in Workers :
        pc[w] \in {"lock4", "emit"}
        => /\ msg[w].is_partial = FALSE
              <=> \/ Size(engine_in[w]) * 100 > 66 * n_samples_iter_threshold
                  \/ need_close_segment[w]
                  \/ TailVad(engine_in[w], params.vad_thold, params.freq_thold)
           /\ msg[w].is_partial => pcmf32[w] = engine_in[w]

\* C10 witness: a window over 66% of the threshold made the message final
\* although no speech end was judged
C10_Witness ==
    /\ pc[1] = "emit"
    /\ speech_has_end[1] = FALSE
    /\ msg[1].is_partial = FALSE
    /\ Size(engine_in[1]) <= n_samples_iter_threshold

\* the text of a token sequence with nothing inserted
RECURSIVE TextOf(_)
TextOf(tokens) ==
    IF tokens = <<>> THEN <<>> ELSE Head(tokens).text \o TextOf(Tail(tokens))

HasMarker(text) ==
    \E k \in 1..Len(text) :
        k + Len(SplitMarker) - 1 <= Len(text)
        /\ SubSeq(text, k, k + Len(SplitMarker) - 1) = SplitMarker

\* token i is a split candidate that ends before half_t, token j a later
\* one that ends at or after half_t, and there is no other candidate up to j
ProvisionalThenConfirmed(tokens, half_t, i, j) ==
    /\ i < j
    /\ IsSplitCandidate(tokens[i].text) /\ tokens[i].t1 < half_t
    /\ IsSplitCandidate(tokens[j].text) /\ tokens[j].t1 >= half_t
    /\ \A k \in 1..j : IsSplitCandidate(tokens[k].text) => k \in {i, j}

\* C11: with speech not ended, a split candidate with t1 < half_t followed
\* by one with t1 >= half_t gives a text with exactly one {SPLIT}, right
\* after the text of the earlier candidate.
C11_MarkerAtProvisional ==
    returned.fn = "SplitText" /\ call.speech_has_end = FALSE
    => LET tokens == FlattenSegments(call.segments)
       IN \A i, j \in 1..Len(tokens) :
             ProvisionalThenConfirmed(tokens, HalfT(call.segments), i, j)
             => returned.st.text = TextOf(SubSeq(tokens, 1, i)) \o SplitMarker
                                   \o TextOf(SubSeq(tokens, i + 1, Len(tokens)))

\* C12: with speech judged ended, a scan that meets a split candidate with
\* t1 >= half_t, after a candidate with t1 < half_t or after none, gives a
\* text without any {SPLIT}.
C12_NoMarkerWhenEnded ==
    returned.fn = "SplitText" /\ call.speech_has_end
    => LET tokens == FlattenSegments(call.segments)
       IN (\E j \in 1..Len(tokens) : /\ IsSplitCandidate(tokens[j].text)
                                     /\ tokens[j].t1 >= HalfT(call.segments))
          => /\ ~HasMarker(returned.st.text)
             /\ returned.st.text = TextOf(tokens)

\* C12 witness: the scan of an ended utterance went over a candidate before
\* half_t and then one after it
C12_Witness ==
    /\ returned.fn = "SplitText"
    /\ call.speech_has_end
    /\ LET tokens == FlattenSegments(call.segments)
       IN \E i, j \in 1..Len(tokens) :
             /\ ProvisionalThenConfirmed(tokens, HalfT(call.segments), i, j)
             /\ tokens[i].t1 > 0
             /\ returned.st.delete_target_t = tokens[i].t1

\* C13: the iteration prints the backpressure warning exactly when the
\* queue holds more than 2 * n_samples_iter_threshold samples, and the step
\* that tests it leaves the queue and the window as they were.
C13_WarnAboveTwiceThreshold ==
    [][\A w \in Workers :
          pc[w] = "warn" /\ pc'[w] # "warn"
          => /\ warned'[w] <=> Size(s_queued_pcmf32) > 2 * n_samples_iter_threshold
             /\ s_queued_pcmf32' = s_queued_pcmf32
             /\ pcmf32'[w] = pcmf32[w]]_vars

\* C13 witness: the warning was printed for a queue of one sample more than
\* twice the threshold, which is still queued
C13_Witness ==
    /\ pc[1] = "lock3"
    /\ warned[1]
    /\ Size(s_queued_pcmf32) = 2 * n_samples_iter_threshold + 1

\* C14: the audio window of run() never holds more than
\* n_samples_iter_threshold samples.
C14_WindowBounded ==
    \A w \in Workers : Size(pcmf32[w]) <= n_samples_iter_threshold

AllZero(a) == \A i \in 1..Len(a) : a[i].amp = 0

\* the length of the recent window of a call of vad_simple, in samples
RecentSamples(c) == (c.sample_rate * c.last_ms) \div 1000

\* the two means of a buffer as vad_simple left it
EnergyAll(data) == IF data = <<>> THEN 0 ELSE MeanAbs(data, Size(data))

EnergyLast(data, k) == IF k = 0 THEN 0 ELSE MeanAbs(LastSamples(data, k), k)

NearSilence(data, k) ==
    /\ EnergyAll(data) < EnergyFloor * MeanScale
    /\ EnergyLast(data, k) < EnergyFloor * MeanScale

RecentAtMost(data, k, vad_thold) ==
    EnergyLast(data, k) * vad_thold[2] <= vad_thold[1] * EnergyAll(data)

\* C15: vad_simple never returns true for a buffer of zeros.
C15_ZeroBufferNeverTrue ==
    returned.fn = "vad_simple" /\ AllZero(call.pcmf32) => returned.result = FALSE

\* C15 as amended: for a buffer of zeros vad_simple returns true whenever
\* the buffer is longer than the recent window, and false only through the
\* test for too little history.
C15_ZeroBufferIsSilence ==
    returned.fn = "vad_simple" /\ AllZero(call.pcmf32)
    => (returned.result <=> RecentSamples(call) < Size(call.pcmf32))

\* C15 witness: a buffer of zeros with a recent window of 250 ms or more
\* was judged
C15_Witness ==
    /\ returned.fn = "vad_simple"
    /\ AllZero(call.pcmf32)
    /\ call.last_ms > 0
    /\ returned.result

\* C16: vad_simple returns true only when the two means are not both below
\* the floor and the mean of the recent window is at most vad_thold times
\* the mean of the whole buffer.
C16_TrueOnlyWhenNotSilent ==
    returned.fn = "vad_simple" /\ returned.result
    => /\ ~NearSilence(returned.data, RecentSamples(call))
       /\ RecentAtMost(returned.data, RecentSamples(call), call.vad_thold)

\* C16 as amended: vad_simple returns true only when both means are below
\* the floor and the mean of the recent window is at most vad_thold times
\* the mean of the whole buffer.
C16_TrueOnlyWhenSilent ==
    returned.fn = "vad_simple" /\ returned.result
    => /\ NearSilence(returned.data, RecentSamples(call))
       /\ RecentAtMost(returned.data, RecentSamples(call), call.vad_thold)

\* C16 witness: a quiet buffer that is not all zeros, with a recent window,
\* was judged true
C16_Witness ==
    /\ returned.fn = "vad_simple"
    /\ returned.result
    /\ call.last_ms > 0
    /\ EnergyAll(returned.data) > 0

\* C17: when the recent window is at least as long as the buffer, the empty
\* buffer included, vad_simple returns false, and it has not filtered the
\* buffer.
C17_InsufficientHistory ==
    returned.fn = "vad_simple" /\ RecentSamples(call) >= Size(call.pcmf32)
    => /\ returned.result = FALSE
       /\ returned.data = call.pcmf32

\* C17 witness: a buffer of zeros exactly as long as the recent window was
\* judged
C17_Witness ==
    /\ returned.fn = "vad_simple"
    /\ call.pcmf32 # <<>>
    /\ AllZero(call.pcmf32)
    /\ RecentSamples(call) = Size(call.pcmf32)

\* C18: when src_simple reports an error, add_audio_buffer appends
\* nothing, releases the mutex and returns, and leaves everything else of
\* the program, the threads of run() included, as it was.
C18_ResampleErrorDropsBlock ==
    [][producer # <<>> /\ producer' = <<>>
       /\ producer[1].src_error # 0 /\ producer[1].mix_rate # SPEECH_SETTING_SAMPLE_RATE
       => /\ s_queued_pcmf32' = s_queued_pcmf32
          /\ accepted_log' = accepted_log
          /\ s_mutex = ProducerThread /\ s_mutex' = 0
          /\ UNCHANGED <<is_running, worker, context_instance, params,
                         s_transcribed_msgs, moved_log, locals>>]_vars

\* C18 witness: add_audio_buffer holds the mutex for a block whose
\* conversion fails, while an earlier block is queued and a thread of run()
\* waits for the mutex
C18_Witness ==
    /\ producer # <<>>
    /\ producer[1].src_error # 0
    /\ producer[1].mix_rate # SPEECH_SETTING_SAMPLE_RATE
    /\ s_mutex = ProducerThread
    /\ s_queued_pcmf32 # <<>>
    /\ pc[1] = "lock1"

\* C19: the step that emits hands emit_signal an array of exactly one
\* message, the one the iteration built, and leaves the result sink empty
\* when it releases the mutex; nothing is handed to emit_signal at any
\* other step, and the sink holds no message between the steps.
C19_OneMessagePerEmission ==
    /\ [](s_transcribed_msgs = <<>>)
    /\ [][\A w \in Workers :
            pc[w] = "emit" /\ pc'[w] # "emit"
            => /\ signal[w] = <<>>
               /\ signal'[w] = <<msg[w]>>
               /\ s_transcribed_msgs' = <<>>
               /\ s_mutex = w /\ s_mutex' = 0]_vars
    /\ [][\A w \in Workers :
            signal'[w] # signal[w] => pc[w] = "emit" \/ signal'[w] = <<>>]_vars

\* C19 witness: an iteration over the audio of two blocks has emitted its
\* message and released the mutex
C19_Witness ==
    /\ pc[1] = "head"
    /\ s_mutex = 0
    /\ Len(signal[1]) = 1
    /\ signal[1][1] = msg[1]
    /\ msg[1].text # <<>>
    /\ Len(engine_in[1]) >= 2
    /\ s_transcribed_msgs = <<>>

\* a thread of run() has handed a final message to emit_signal
FinalEmitted ==
    \E w \in Workers : signal[w] # <<>> /\ signal[w][1].is_partial = FALSE

\* C20: with a loaded model and a succeeding engine, 3 s of loud audio
\* followed by 1 s of zeros leads to a final message, and no message is
\* emitted before n_samples_trigger samples were queued in total.
C20_EndToEnd ==
    /\ <>FinalEmitted
    /\ [](\A w \in Workers : signal[w] # <<>> => Size(accepted_log) >= n_samples_trigger)

\* C20 witness: the whole script was submitted, the loud 3 s were queued and
\* a final message was emitted
C20_Witness ==
    /\ call.fn = "feed"
    /\ n_chunks = Len(call.blocks)
    /\ producer = <<>>
    /\ Size(accepted_log) >= 3 * WHISPER_SAMPLE_RATE
    /\ FinalEmitted

\* C21: the idle counter counts consecutive idle checks: a queue check that
\* finds enough audio leaves the counter at 0, so that a forced close comes
\* only after 20 idle checks in a row.
C21_NonIdleCheckResetsCount ==
    [][\A w \in Workers :
          pc[w] = "check" /\ pc'[w] # "check" /\ ~QueueBelowTrigger(s_queued_pcmf32)
          => empty_iter_count'[w] = 0]_vars

C23_HandleStableInFlight ==
    [][(\E w \in Workers : pc[w] = "inflight") => context_instance' = context_instance]_vars

\* C24: add_audio_buffer holds s_mutex for the append only: while it holds
\* the mutex no block is still waiting to be downmixed, resampled and gated.
C24_LockedForAppendOnly ==
    s_mutex = ProducerThread => producer = <<>>

\* C25: without a forced close the window after the iteration is the
\* window given to whisper_full or an unfiltered tail of it, whatever
\* freq_thold is, and the tail check ends the speech only on a window of at
\* least n_samples_vad_window samples.
C25_TailCheckOnCopy ==
    returned.fn = "Transcribe" /\ ~call.need_close
    => /\ returned.pcmf32 = LastSamples(call.window, Size(returned.pcmf32))
       /\ returned.msg.is_partial => returned.pcmf32 = call.window
       /\ returned.speech_has_end => Size(call.window) >= n_samples_vad_window

\* the check ran with the filter on and the window is kept as it was
C25_Witness ==
    /\ returned.fn = "Transcribe"
    /\ ~call.need_close
    /\ params.freq_thold > 0
    /\ Size(call.window) >= n_samples_vad_window
    /\ returned.msg.is_partial
    /\ returned.pcmf32 = call.window

\* the first samples of the accepted audio, by their number
AcceptedCounts == {k * 8000 : k \in 1..3}

\* C26: with run() running and whisper_full succeeding, the first n accepted
\* samples are, for every n, eventually moved into a window that is passed to
\* whisper_full, also when no further block follows.
C26_AcceptedReachesEngine ==
    \A n \in AcceptedCounts :
        (Size(accepted_log) >= n /\ Size(moved_log) < n)
            ~> (Size(moved_log) >= n /\ \E w \in Workers : pc[w] = "inflight")

\* C27: with speech judged ended the text of the message has no {SPLIT},
\* whatever tokens whisper_full returned.
C27_EndedTextHasNoMarker ==
    returned.fn = "SplitText" /\ call.speech_has_end => ~HasMarker(returned.st.text)

\* the places of run() outside its four lock()/unlock() pairs
Unlocked == {"unborn", "head", "lock1", "sleep", "lock2", "lock3", "engine",
             "inflight", "lock4", "exited"}

\* C28: a thread of run() holds s_mutex at none of the places outside its
\* lock()/unlock() pairs, so not during delay_msec(50) nor during
\* whisper_full and not when it comes back to the loop head on any path, and
\* a held mutex is always released again.
C28_MutexReleased ==
    /\ [](\A w \in Workers : pc[w] \in Unlocked => s_mutex # w)
    /\ (s_mutex # 0) ~> (s_mutex = 0)

\* C28 witness: add_audio_buffer holds the mutex while a thread of run() is
\* in delay_msec(50)
C28_Witness ==
    /\ s_mutex = ProducerThread
    /\ \E w \in Workers : pc[w] = "sleep"

\* the text of the tokens with one {SPLIT} right after the text of token i
MarkedAfter(tokens, i) ==
    TextOf(SubSeq(tokens, 1, i)) \o SplitMarker \o TextOf(SubSeq(tokens, i + 1, Len(tokens)))

\* C29: for every result of whisper_full and either speech-end verdict the
\* text of the message is the texts of all tokens of all segments in order,
\* either with nothing inserted or with one {SPLIT} right after the text of
\* a split-candidate token.
C29_TextIsConcatenation ==
    returned.fn = "SplitText"
    => LET tokens == FlattenSegments(call.segments)
       IN \/ returned.st.text = TextOf(tokens)
          \/ \E i \in 1..Len(tokens) : /\ IsSplitCandidate(tokens[i].text)
                                       /\ returned.st.text = MarkedAfter(tokens, i)

\* C29 witness: the marker was inserted inside the text, after a candidate
\* of several bytes in a later segment
C29_Witness ==
    /\ returned.fn = "SplitText"
    /\ Len(call.segments) = 2
    /\ LET tokens == FlattenSegments(call.segments)
       IN \E i \in 2..(Len(tokens) - 1) : /\ Len(tokens[i].text) > 1
                                          /\ returned.st.text = MarkedAfter(tokens, i)

\* the window after the samples up to time t1 (in 10 ms) are removed
CutAt(window, t1) ==
    LET index == (t1 * WHISPER_SAMPLE_RATE) \div 100
    IN IF index >= Size(window) THEN <<>> ELSE DropSamples(window, index)

\* C30: when a final message carries {SPLIT} after the text of token i and
\* the window is cut at the split point (the utterance has not ended and
\* delete_target_t is not 0), the cut is at the end time t1 of token i.
C30_CutAtMarkedToken ==
    returned.fn = "Transcribe" /\ returned.msg.is_partial = FALSE
                               /\ returned.speech_has_end = FALSE
                               /\ returned.delete_target_t # 0
    => LET tokens == FlattenSegments(call.segments)
       IN \A i \in 1..Len(tokens) :
             returned.msg.text = MarkedAfter(tokens, i)
             => /\ returned.delete_target_t = tokens[i].t1
                /\ returned.pcmf32 = CutAt(call.window, tokens[i].t1)

\* C30 witness: the marker stands after a provisional candidate that a later
\* candidate confirmed, and the window was cut at the provisional one's t1
C30_Witness ==
    /\ returned.fn = "Transcribe"
    /\ returned.msg.is_partial = FALSE
    /\ returned.speech_has_end = FALSE
    /\ LET tokens == FlattenSegments(call.segments)
       IN /\ Len(tokens) = 2
          /\ IsSplitCandidate(tokens[2].text)
          /\ tokens[1].t1 < tokens[2].t1
          /\ returned.msg.text = MarkedAfter(tokens, 1)
          /\ returned.pcmf32 = CutAt(call.window, tokens[1].t1)
          /\ returned.pcmf32 # <<>>

====
